---- MODULE Spec2Model ----
(***************************************************************************)
(* Shape, indexing and state bookkeeping of src/models/modules.py:         *)
(*   - SeparatedBatchNorm1d: per-timestep running statistics (SpecBN)      *)
(*   - CBHG: tensor shapes through the forward pass (SpecCBHG)             *)
(*   - MinimalGRU: constructor, parameter naming, forward loop (SpecGRU)   *)
(* Tensors are modelled by their shapes; running statistics are modelled   *)
(* by exact fixed-point numbers.                                           *)
(***************************************************************************)
EXTENDS Integers, Sequences, FiniteSets, TLC

\* ---------------------------------------------------------------- bounds
MaxLength == 3      \* largest max_length of a SeparatedBatchNorm1d
MaxFeatures == 2    \* largest num_features
MaxCalls == 3       \* number of calls made on one SeparatedBatchNorm1d
MaxHidden == 2      \* largest hidden_size of a CBHG
MaxK == 4           \* largest number of convolution banks K
MaxPoolKernel == 3  \* largest max_pool_kernel_size
MaxGruLayers == 2   \* largest num_gru_layers
MaxHighway == 1     \* largest num_highway_blocks
MaxBatch == 2       \* largest batch size of an input
MaxTime == 3        \* largest time length of an input
MaxInputSize == 2   \* largest input_size of a MinimalGRU
MaxGruHidden == 2   \* largest hidden_size of a MinimalGRU
MaxLayers == 2      \* largest num_layers of a MinimalGRU

\* dropout probabilities are counted in tenths: DropoutOne is 1.0, the upper
\* limit of "self.dropout > 1"
DropoutOne == 10

\* momentum = 0.1 (default argument of SeparatedBatchNorm1d.__init__)
MomentumNum == 1
MomentumDen == 10

\* fixed-point unit: every value reachable within MaxCalls updates is exact
Scale == MomentumDen ^ MaxCalls

VARIABLES
    \* SeparatedBatchNorm1d
    max_length,      \* self.max_length
    num_features,    \* self.num_features
    training,        \* self.training (nn.Module flag)
    running_mean,    \* buffers running_mean_{i}, i in 0..max_length-1
    running_var,     \* buffers running_var_{i}
    bn_call,         \* the last call made and its outcome
    bn_calls,        \* number of calls made so far
    \* CBHG
    cbhg,            \* constructor arguments of the CBHG
    input_,          \* shape of the input of CBHG.forward
    pc,              \* position in CBHG.forward
    k,               \* enumerate index of the convolution-bank loop
    convbank_input,  \* shape of convbank_input
    convbank_list,   \* shapes appended to convbank_list
    conv_cat,        \* shape of conv_cat
    style_feature,   \* shape of style_feature
    conv_proj,       \* shape of conv_proj
    highway,         \* shape of highway
    content_feature, \* shape of content_feature
    \* MinimalGRU
    gru,             \* constructor arguments of the MinimalGRU
    gru_pc,          \* position in __init__ / forward
    gru_error,       \* exception raised by __init__
    attrs,           \* parameters registered by setattr(self, name, param)
    all_weights,     \* self._all_weights
    drop_modules,    \* length of self.drop_modules
    x_,              \* forward: x, the layer input / output
    t_len,           \* forward: t_len
    layer,           \* forward: layer
    direction,       \* forward: direction
    bound,           \* forward: w_ih, w_hh, b_ih, b_hh, mask of the direction
    t_,              \* forward: t
    hx_,             \* forward: hx_, as the timesteps it has consumed
    hx_outputs,      \* forward: hx_outputs
    layer_outputs    \* forward: layer_outputs

bnVars == <<max_length, num_features, training, running_mean, running_var,
            bn_call, bn_calls>>

cbhgVars == <<cbhg, input_, pc, k, convbank_input, convbank_list, conv_cat,
              style_feature, conv_proj, highway, content_feature>>

gruVars == <<gru, gru_pc, gru_error, attrs, all_weights, drop_modules, x_, t_len,
             layer, direction, bound, t_, hx_, hx_outputs, layer_outputs>>

vars == <<bnVars, cbhgVars, gruVars>>

\* the variables of the other modules, which an operation of one module leaves alone
notBN == <<cbhgVars, gruVars>>
notCBHG == <<bnVars, gruVars>>
notGRU == <<bnVars, cbhgVars>>

\* ------------------------------------------------- SeparatedBatchNorm1d
\* the index recorded when no buffer is selected: below every timestep argument
NoIndex == -(MaxLength + 2)

\* register_buffer loop of __init__ followed by reset_parameters
InitialMean(L) == [i \in 0 .. L - 1 |-> 0]
InitialVar(L) == [i \in 0 .. L - 1 |-> Scale]

\* per-batch statistics an input can have (mean, biased variance)
BatchStats == {<<0, 2 * Scale>>, <<Scale, 0>>}

\* timestep arguments: below range, in range, at and above max_length
Times == -1 .. MaxLength + 1

\* the module after __init__, with at least one buffer pair: with max_length = 0
\* no running_mean_0 exists and no forward call can select a buffer
BNInit ==
    /\ max_length \in 1 .. MaxLength
    /\ num_features \in 1 .. MaxFeatures
    /\ training = TRUE
    /\ running_mean = InitialMean(max_length)
    /\ running_var = InitialVar(max_length)
    /\ bn_call = [op |-> "init", time |-> NoIndex, feat |-> NoIndex, error |-> "none",
                  selected |-> NoIndex, training |-> TRUE]
    /\ bn_calls = 0

\* _check_input_dim: TRUE when the ValueError is raised
check_input_dim_never(feat) == FALSE
check_input_dim(feat) == feat # num_features

\* forward: "if time >= self.max_length: time = self.max_length - 1"
clamp_wraps(time) == IF time >= max_length THEN time % max_length ELSE time
clamp(time) == IF time >= max_length THEN max_length - 1 ELSE time

\* exponential moving average of F.batch_norm
Ema(old, new) == ((MomentumDen - MomentumNum) * old + MomentumNum * new) \div MomentumDen

\* F.batch_norm on the selected buffers: the new (running_mean, running_var)
batch_norm_always(mean, var, stats, train) == <<Ema(mean, stats[1]), Ema(var, stats[2])>>
batch_norm(mean, var, stats, train) ==
    IF train THEN <<Ema(mean, stats[1]), Ema(var, stats[2])>> ELSE <<mean, var>>

BNForward(feat, time, stats) ==
    /\ bn_calls < MaxCalls
    /\ bn_calls' = bn_calls + 1
    /\ UNCHANGED <<max_length, num_features, training>>
    /\ UNCHANGED notBN
    /\ IF check_input_dim(feat)
       THEN /\ bn_call' = [op |-> "forward", time |-> time, feat |-> feat,
                           error |-> "ValueError",
                           selected |-> NoIndex, training |-> training]
            /\ UNCHANGED <<running_mean, running_var>>
       ELSE LET t == clamp(time) IN
            IF t \notin DOMAIN running_mean
            THEN \* getattr(self, 'running_mean_{}'.format(time)) finds no buffer
                 /\ bn_call' = [op |-> "forward", time |-> time, feat |-> feat,
                                error |-> "AttributeError",
                                selected |-> NoIndex, training |-> training]
                 /\ UNCHANGED <<running_mean, running_var>>
            ELSE LET new == batch_norm(running_mean[t], running_var[t], stats, training) IN
                 /\ running_mean' = [running_mean EXCEPT ![t] = new[1]]
                 /\ running_var' = [running_var EXCEPT ![t] = new[2]]
                 /\ bn_call' = [op |-> "forward", time |-> time, feat |-> feat,
                                error |-> "none",
                                selected |-> t, training |-> training]

\* nn.Module.train(mode) / eval()
BNSetTraining(mode) ==
    /\ bn_calls < MaxCalls
    /\ mode # training
    /\ training' = mode
    /\ bn_call' = [op |-> "train", time |-> NoIndex, feat |-> NoIndex, error |-> "none",
                   selected |-> NoIndex, training |-> mode]
    /\ UNCHANGED <<max_length, num_features, running_mean, running_var, bn_calls>>
    /\ UNCHANGED notBN

\* reset_parameters
BNResetParameters ==
    /\ bn_calls < MaxCalls
    /\ bn_calls' = bn_calls + 1
    /\ running_mean' = [i \in DOMAIN running_mean |-> 0]
    /\ running_var' = [i \in DOMAIN running_var |-> Scale]
    /\ bn_call' = [op |-> "reset", time |-> NoIndex, feat |-> NoIndex, error |-> "none",
                   selected |-> NoIndex, training |-> training]
    /\ UNCHANGED <<max_length, num_features, training>>
    /\ UNCHANGED notBN

BNNext ==
    \/ \E feat \in 1 .. MaxFeatures + 1, time \in Times, stats \in BatchStats :
           BNForward(feat, time, stats)
    \/ \E mode \in BOOLEAN : BNSetTraining(mode)
    \/ BNResetParameters



\* ------------------------------------------------------------ tensor shapes
\* a 3-axis tensor is its shape <<size(0), size(1), size(2)>>
None == <<>>
Error == <<"error">>

Min(a, b) == IF a < b THEN a ELSE b
Max(a, b) == IF a > b THEN a ELSE b

\* int(np.floor(kernel_size / 2))
Padding(kernel_size) == kernel_size \div 2

\* nn.Conv1d(in_channels, out_channels, kernel_size, padding), stride 1
Conv1d(x, in_channels, out_channels, kernel_size, padding) ==
    IF x = Error THEN Error
    ELSE LET len == x[3] + 2 * padding - (kernel_size - 1) IN
         IF x[2] # in_channels \/ len < 1 THEN Error
         ELSE <<x[1], out_channels, len>>

\* nn.BatchNorm1d(num_features)
BatchNorm1d(x, features) ==
    IF x = Error THEN Error
    ELSE IF x[2] # features THEN Error ELSE x

\* x[:, :, :-1]
TrimLast(x) ==
    IF x = Error THEN Error ELSE <<x[1], x[2], Max(x[3] - 1, 0)>>

\* CBHG._conv_fit_dim
conv_fit_dim_never(x, kernel_size) == x
conv_fit_dim(x, kernel_size) ==
    IF kernel_size % 2 = 0 THEN TrimLast(x) ELSE x

\* nn.MaxPool1d(kernel_size, stride=1, padding)
MaxPool1d(x, kernel_size, padding) ==
    IF x = Error THEN Error
    ELSE LET len == x[3] + 2 * padding - kernel_size + 1 IN
         IF padding > kernel_size \div 2 \/ len < 1 THEN Error
         ELSE <<x[1], x[2], len>>

\* torch.cat(list, dim=1)
RECURSIVE SumChannels(_)
SumChannels(list) ==
    IF list = <<>> THEN 0 ELSE Head(list)[2] + SumChannels(Tail(list))

Cat1(list) ==
    IF list = <<>> THEN Error
    ELSE IF \E i \in 1 .. Len(list) :
                list[i][1] # list[1][1] \/ list[i][3] # list[1][3]
         THEN Error
         ELSE <<list[1][1], SumChannels(list), list[1][3]>>

\* elementwise a + b, a * b with broadcasting
BroadcastDim(a, b) == IF a = b THEN a ELSE IF a = 1 THEN b ELSE IF b = 1 THEN a ELSE -1

Broadcast(x, y) ==
    IF x = Error \/ y = Error THEN Error
    ELSE LET d == [i \in 1 .. 3 |-> BroadcastDim(x[i], y[i])] IN
         IF \E i \in 1 .. 3 : d[i] = -1 THEN Error ELSE d

\* torch.transpose(x, 1, 2)
Transpose12(x) == IF x = Error THEN Error ELSE <<x[1], x[3], x[2]>>

\* SeqLinear.forward
SeqLinear(x, input_size, output_size, time_dim) ==
    IF x = Error THEN Error
    ELSE LET batch_size == x[1]
             elems == x[1] * x[2] * x[3]
         IN  \* input_.view(-1, self.input_size)
             IF elems % input_size # 0 THEN Error
             ELSE LET rows == elems \div input_size IN
                  \* self.linear(input_).view(batch_size, -1, self.output_size)
                  IF rows % batch_size # 0 THEN Error
                  ELSE IF time_dim = 2
                       THEN <<batch_size, output_size, rows \div batch_size>>
                       ELSE <<batch_size, rows \div batch_size, output_size>>

\* Highwaynet.forward
RECURSIVE Highwaynet(_, _, _)
Highwaynet(out, num_units, num_layers) ==
    IF num_layers = 0 THEN out
    ELSE LET h == SeqLinear(out, num_units, num_units, 2)
             t == SeqLinear(out, num_units, num_units, 2)
             c == t
         IN Highwaynet(Broadcast(Broadcast(h, t), Broadcast(out, c)),
                       num_units, num_layers - 1)

\* nn.GRU(input_size, hidden_size, batch_first=True, bidirectional=True)
\* called with an initial state of shape h0
GRU(x, h0, input_size, hidden_size, num_layers) ==
    IF x = Error THEN Error
    ELSE IF x[3] # input_size \/ h0 # <<2 * num_layers, x[1], hidden_size>>
         THEN Error
         ELSE <<x[1], x[2], 2 * hidden_size>>

\* ------------------------------------------------------------------- CBHG
\* kernel sizes of self.convbank_list
ConvBankKernels(K) == <<1>> \o [i \in 1 .. K - 1 |-> i + 1]

\* out_channels of self.conv_projection_1
Proj1Channels_Hidden(hidden_size) == hidden_size
Proj1Channels(hidden_size) == hidden_size * 2

CBHGConfigs ==
    [hidden_size : 1 .. MaxHidden, K : 1 .. MaxK,
     num_highway_blocks : 0 .. MaxHighway, num_gru_layers : 1 .. MaxGruLayers,
     max_pool_kernel_size : 1 .. MaxPoolKernel]
    \cup {[hidden_size |-> 16, K |-> 4, num_highway_blocks |-> 4,
           num_gru_layers |-> 1, max_pool_kernel_size |-> 2]}

CBHGInputs(c) ==
    {<<b, c.hidden_size, t>> : b \in 1 .. MaxBatch, t \in 1 .. MaxTime}
    \cup (IF c.hidden_size = 16 THEN {<<2, 16, 20>>} ELSE {})

CBHGInit ==
    /\ cbhg \in CBHGConfigs
    /\ input_ = None
    /\ pc = "constructed"
    /\ k = 0
    /\ convbank_input = None
    /\ convbank_list = <<>>
    /\ conv_cat = None
    /\ style_feature = None
    /\ conv_proj = None
    /\ highway = None
    /\ content_feature = None

CBHGIdle ==
    /\ cbhg = None
    /\ input_ = None
    /\ pc = "idle"
    /\ k = 0
    /\ convbank_input = None
    /\ convbank_list = <<>>
    /\ conv_cat = None
    /\ style_feature = None
    /\ conv_proj = None
    /\ highway = None
    /\ content_feature = None

\* forward entry: input_ = input_.contiguous(); convbank_input = input_
CBHGForward(x) ==
    /\ UNCHANGED notCBHG
    /\ pc = "constructed"
    /\ input_' = x
    /\ convbank_input' = x
    /\ convbank_list' = <<>>
    /\ k' = 0
    /\ pc' = "bank"
    /\ UNCHANGED <<cbhg, conv_cat, style_feature, conv_proj, highway, content_feature>>

\* number of (conv, batchnorm) pairs of zip(self.convbank_list, self.batchnorm_list)
BankPairs == Min(Len(ConvBankKernels(cbhg.K)), cbhg.K)

\* one iteration of the convolution-bank loop
CBHGConvBank ==
    /\ UNCHANGED notCBHG
    /\ pc = "bank"
    /\ k < BankPairs
    /\ LET kernel == ConvBankKernels(cbhg.K)[k + 1]
           conv == Conv1d(convbank_input, cbhg.hidden_size, cbhg.hidden_size,
                          kernel, Padding(kernel))
           out == BatchNorm1d(conv_fit_dim(conv, k + 1), cbhg.hidden_size)
       IN IF out = Error
          THEN pc' = "error" /\ UNCHANGED <<convbank_input, convbank_list, k>>
          ELSE /\ convbank_input' = out
               /\ convbank_list' = Append(convbank_list, out)
               /\ k' = k + 1
               /\ pc' = "bank"
    /\ UNCHANGED <<cbhg, input_, conv_cat, style_feature, conv_proj, highway,
                   content_feature>>

\* conv_cat = torch.cat(convbank_list, dim=1)
CBHGConcat ==
    /\ UNCHANGED notCBHG
    /\ pc = "bank"
    /\ k = BankPairs
    /\ LET out == Cat1(convbank_list) IN
       IF out = Error
       THEN pc' = "error" /\ UNCHANGED conv_cat
       ELSE conv_cat' = out /\ pc' = "pool"
    /\ UNCHANGED <<cbhg, input_, k, convbank_input, convbank_list, style_feature,
                   conv_proj, highway, content_feature>>

\* conv_cat = self.max_pool(conv_cat)[:, :, :-1]
CBHGMaxPool ==
    /\ UNCHANGED notCBHG
    /\ pc = "pool"
    /\ LET out == TrimLast(MaxPool1d(conv_cat, cbhg.max_pool_kernel_size, 1)) IN
       IF out = Error
       THEN pc' = "error" /\ UNCHANGED conv_cat
       ELSE conv_cat' = out /\ pc' = "proj1"
    /\ UNCHANGED <<cbhg, input_, k, convbank_input, convbank_list, style_feature,
                   conv_proj, highway, content_feature>>

\* style_feature = batchnorm_proj_1(relu(_conv_fit_dim(conv_projection_1(conv_cat))))
Projection1(x) ==
    BatchNorm1d(conv_fit_dim(Conv1d(x, cbhg.hidden_size * cbhg.K,
                                    Proj1Channels(cbhg.hidden_size), 3, Padding(3)), 3),
                cbhg.hidden_size * 2)

CBHGProjection1 ==
    /\ UNCHANGED notCBHG
    /\ pc = "proj1"
    /\ LET out == Projection1(conv_cat) IN
       IF out = Error
       THEN pc' = "error" /\ UNCHANGED style_feature
       ELSE style_feature' = out /\ pc' = "proj2"
    /\ UNCHANGED <<cbhg, input_, k, convbank_input, convbank_list, conv_cat,
                   conv_proj, highway, content_feature>>

\* batchnorm_proj_2(_conv_fit_dim(conv_projection_2(style_feature)))
Projection2(x) ==
    BatchNorm1d(conv_fit_dim(Conv1d(x, cbhg.hidden_size * 2, cbhg.hidden_size,
                                    3, Padding(3)), 3),
                cbhg.hidden_size)

\* conv_proj = Projection2(style_feature) + input_
CBHGProjection2 ==
    /\ UNCHANGED notCBHG
    /\ pc = "proj2"
    /\ LET out == Broadcast(Projection2(style_feature), input_) IN
       IF out = Error
       THEN pc' = "error" /\ UNCHANGED conv_proj
       ELSE conv_proj' = out /\ pc' = "highway"
    /\ UNCHANGED <<cbhg, input_, k, convbank_input, convbank_list, conv_cat,
                   style_feature, highway, content_feature>>

\* highway = torch.transpose(self.highway.forward(conv_proj), 1, 2)
CBHGHighway ==
    /\ UNCHANGED notCBHG
    /\ pc = "highway"
    /\ LET out == Transpose12(Highwaynet(conv_proj, cbhg.hidden_size,
                                         cbhg.num_highway_blocks)) IN
       IF out = Error
       THEN pc' = "error" /\ UNCHANGED highway
       ELSE highway' = out /\ pc' = "gru"
    /\ UNCHANGED <<cbhg, input_, k, convbank_input, convbank_list, conv_cat,
                   style_feature, conv_proj, content_feature>>

\* content_feature, _ = self.gru(highway, init_gru); return
CBHGGru ==
    /\ UNCHANGED notCBHG
    /\ pc = "gru"
    /\ LET init_gru == <<2 * cbhg.num_gru_layers, input_[1], cbhg.hidden_size>>
           out == GRU(highway, init_gru, cbhg.hidden_size, cbhg.hidden_size,
                      cbhg.num_gru_layers)
       IN IF out = Error
          THEN pc' = "error" /\ UNCHANGED content_feature
          ELSE content_feature' = out /\ pc' = "done"
    /\ UNCHANGED <<cbhg, input_, k, convbank_input, convbank_list, conv_cat,
                   style_feature, conv_proj, highway>>

CBHGNext ==
    \/ \E x \in CBHGInputs(cbhg) : CBHGForward(x)
    \/ CBHGConvBank
    \/ CBHGConcat
    \/ CBHGMaxPool
    \/ CBHGProjection1
    \/ CBHGProjection2
    \/ CBHGHighway
    \/ CBHGGru

\* ------------------------------------------------------------- MinimalGRU
\* dropout arguments (in tenths): below 0, 0, inside (0, 1), 1, above 1
Dropouts == {-1, 0, 5, DropoutOne, DropoutOne + 1}
Nonlinearities == {"relu", "tanh", "sigmoid"}

GRUConfigs ==
    [input_size : 1 .. MaxInputSize, hidden_size : 1 .. MaxGruHidden,
     num_layers : 1 .. MaxLayers, is_bidirection : BOOLEAN, bias : BOOLEAN,
     dropout : Dropouts, nonlinearity : Nonlinearities, is_norm : BOOLEAN]

\* self.num_directions
num_directions(g) == IF g.is_bidirection THEN 2 ELSE 1

gate_size(g) == 2 * g.hidden_size

\* "if self.dropout < 0 or self.dropout > 1"
dropout_invalid_low_only(d) == d < 0
dropout_invalid(d) == d < 0 \/ d > DropoutOne

\* "if nonlinearity == 'relu' ... elif nonlinearity == 'tanh' ... else raise"
nonlinearity_implemented(n) == n = "relu" \/ n = "tanh"

\* layer_input_size of __init__
layer_input_size_first(g, l) == g.input_size
layer_input_size(g, l) ==
    IF l = 0 THEN g.input_size ELSE g.hidden_size * num_directions(g)

NoTensor ==
    [made_as |-> "None", layer |-> -1, direction |-> -1, shape |-> <<>>,
     requires_grad |-> FALSE, data |-> "none"]

\* (w_ih, w_hh, b_ih, b_hh, drop_mask) created for one (layer, direction)
layer_params(g, l, d) ==
    <<[made_as |-> "w_ih", layer |-> l, direction |-> d,
       shape |-> <<gate_size(g), layer_input_size(g, l)>>,
       requires_grad |-> TRUE, data |-> "uninitialized"],
      [made_as |-> "w_hh", layer |-> l, direction |-> d,
       shape |-> <<gate_size(g), g.hidden_size>>,
       requires_grad |-> TRUE, data |-> "uninitialized"],
      [made_as |-> "b_ih", layer |-> l, direction |-> d,
       shape |-> <<gate_size(g)>>,
       requires_grad |-> TRUE, data |-> "uninitialized"],
      [made_as |-> "b_hh", layer |-> l, direction |-> d,
       shape |-> <<gate_size(g)>>,
       requires_grad |-> TRUE, data |-> "uninitialized"],
      [made_as |-> "drop_mask", layer |-> l, direction |-> d,
       shape |-> <<gate_size(g)>>,
       requires_grad |-> FALSE, data |-> "ones"]>>

\* param_names of one (layer, direction), before formatting
param_names(g) ==
    <<"weight_ih", "weight_hh">>
    \o (IF g.bias THEN <<"bias_ih", "bias_hh">> ELSE <<>>)
    \o (IF g.dropout # 0 THEN <<"drop_mask">> ELSE <<>>)

\* x.format(layer, suffix): the attribute name 'root_l{layer}{suffix}'
format(root, l, d) == <<root, l, d>>

\* reset_parameters on one registered parameter
reset_parameters(w) ==
    IF ~w.requires_grad THEN w ELSE [w EXCEPT !.data = "uniform"]

\* "for name, param in zip(param_names, layer_params): setattr(self, name, param)"
\* over all layers and directions, followed by reset_parameters
RegisteredNames(g) ==
    {format(param_names(g)[i], l, d) :
        i \in 1 .. Len(param_names(g)), l \in 0 .. g.num_layers - 1,
        d \in 0 .. num_directions(g) - 1}

Registered(g) ==
    [n \in RegisteredNames(g) |->
        LET i == CHOOSE j \in 1 .. Len(param_names(g)) : param_names(g)[j] = n[1]
        IN reset_parameters(layer_params(g, n[2], n[3])[i])]

\* self._all_weights, indexed from 1
AllWeights(g) ==
    [idx \in 1 .. g.num_layers * num_directions(g) |->
        LET l == (idx - 1) \div num_directions(g)
            d == (idx - 1) % num_directions(g)
        IN [i \in 1 .. Len(param_names(g)) |-> format(param_names(g)[i], l, d)]]

GRUInit ==
    /\ gru \in GRUConfigs
    /\ gru_pc = "args"
    /\ gru_error = "none"
    /\ attrs = <<>>
    /\ all_weights = <<>>
    /\ drop_modules = 0
    /\ x_ = None
    /\ t_len = 0
    /\ layer = 0
    /\ direction = 0
    /\ bound = None
    /\ t_ = 0
    /\ hx_ = <<>>
    /\ hx_outputs = <<>>
    /\ layer_outputs = <<>>

GRUIdle ==
    /\ gru = None
    /\ gru_pc = "idle"
    /\ gru_error = "none"
    /\ attrs = <<>>
    /\ all_weights = <<>>
    /\ drop_modules = 0
    /\ x_ = None
    /\ t_len = 0
    /\ layer = 0
    /\ direction = 0
    /\ bound = None
    /\ t_ = 0
    /\ hx_ = <<>>
    /\ hx_outputs = <<>>
    /\ layer_outputs = <<>>

\* MinimalGRU.__init__
GRUConstruct ==
    /\ UNCHANGED notGRU
    /\ gru_pc = "args"
    /\ IF dropout_invalid(gru.dropout)
       THEN /\ gru_error' = "ValueError"
            /\ gru_pc' = "raised"
            /\ UNCHANGED <<attrs, all_weights, drop_modules>>
       ELSE IF ~nonlinearity_implemented(gru.nonlinearity)
       THEN /\ gru_error' = "NotImplementedError"
            /\ gru_pc' = "raised"
            /\ UNCHANGED <<attrs, all_weights, drop_modules>>
       ELSE /\ attrs' = Registered(gru)
            /\ all_weights' = AllWeights(gru)
            /\ drop_modules' = IF gru.dropout # 0
                               THEN gru.num_layers * num_directions(gru) ELSE 0
            /\ gru_pc' = "constructed"
            /\ UNCHANGED gru_error
    /\ UNCHANGED <<gru, x_, t_len, layer, direction, bound, t_, hx_, hx_outputs,
                   layer_outputs>>

\* forward entry: t_len = x.size()[time_dim]; the input is (batch, time,
\* input_size) with time >= 1 and its element at time i is written i; hx is
\* (num_layers * num_directions, batch, hidden_size)
GRUForward(batch, time) ==
    /\ UNCHANGED notGRU
    /\ gru_pc = "constructed"
    /\ x_' = [batch |-> batch, width |-> gru.input_size,
             seq |-> [i \in 1 .. time |-> i - 1]]
    /\ t_len' = time
    /\ layer' = 0
    /\ direction' = 0
    /\ layer_outputs' = <<>>
    /\ gru_pc' = "direction"
    /\ UNCHANGED <<gru, gru_error, attrs, all_weights, drop_modules, bound, t_, hx_,
                   hx_outputs>>

\* "get attrs": the unpacking of attrs into w_ih, w_hh, b_ih, b_hh, mask
Unpack(g, a) ==
    IF g.bias
    THEN IF g.dropout # 0
         THEN [w_ih |-> a[1], w_hh |-> a[2], b_ih |-> a[3], b_hh |-> a[4],
               mask |-> a[5]]
         ELSE [w_ih |-> a[1], w_hh |-> a[2], b_ih |-> a[3], b_hh |-> a[4],
               mask |-> NoTensor]
    ELSE LET b == a \o <<NoTensor, NoTensor>> IN
         IF g.dropout # 0
         THEN [w_ih |-> b[1], w_hh |-> b[2], mask |-> b[3], b_ih |-> b[4],
               b_hh |-> b[5]]
         ELSE [w_ih |-> b[1], w_hh |-> b[2], b_ih |-> b[3], b_hh |-> b[4],
               mask |-> NoTensor]

\* start of one direction of one layer: weight lookup, mask, hx_ = hx[...]
GRUBeginDirection ==
    /\ UNCHANGED notGRU
    /\ gru_pc = "direction"
    /\ direction < num_directions(gru)
    /\ LET weight_attr_names == all_weights[layer * num_directions(gru) + direction + 1]
       IN bound' = Unpack(gru, [i \in 1 .. Len(weight_attr_names) |->
                                    attrs[weight_attr_names[i]]])
    /\ hx_' = <<>>
    /\ hx_outputs' = <<>>
    /\ t_' = 0
    /\ gru_pc' = "time"
    /\ UNCHANGED <<gru, gru_error, attrs, all_weights, drop_modules, x_, t_len, layer,
                   direction, layer_outputs>>

\* F.linear(input, weight, bias): the output width, -1 when the shapes do not fit
Linear(width, weight, bias) ==
    IF Len(weight.shape) # 2 \/ weight.shape[2] # width THEN -1
    ELSE IF bias # NoTensor /\ bias.shape # <<weight.shape[1]>> THEN -1
    ELSE weight.shape[1]

\* the GRU cell of one timestep: the width of the new hx_, -1 on a shape error
Cell(g, width, b) ==
    LET in_part == Linear(width, b.w_ih, b.b_ih)
        h_part == Linear(g.hidden_size, b.w_hh, b.b_hh)
    IN IF in_part = -1 \/ h_part = -1 THEN -1
       ELSE IF g.is_norm /\ (in_part # gate_size(g) \/ h_part # gate_size(g)) THEN -1
       ELSE IF in_part # h_part THEN -1
       ELSE IF g.dropout # 0 /\ b.mask.shape # <<in_part>> THEN -1
       ELSE IF in_part % 2 # 0 \/ in_part \div 2 # g.hidden_size THEN -1
       ELSE in_part \div 2

\* one iteration of "for t in range(t_len)": input = x[:, t, :]
GRUTimeStep ==
    /\ UNCHANGED notGRU
    /\ gru_pc = "time"
    /\ t_ < t_len
    /\ IF Cell(gru, x_.width, bound) = -1
       THEN gru_pc' = "failed" /\ UNCHANGED <<hx_, hx_outputs, t_>>
       ELSE /\ hx_' = Append(hx_, x_.seq[t_ + 1])
            /\ hx_outputs' = Append(hx_outputs, hx_')
            /\ t_' = t_ + 1
            /\ gru_pc' = "time"
    /\ UNCHANGED <<gru, gru_error, attrs, all_weights, drop_modules, x_, t_len, layer,
                   direction, bound, layer_outputs>>

\* layer_outputs.append(hx_outputs)
GRUEndDirection ==
    /\ UNCHANGED notGRU
    /\ gru_pc = "time"
    /\ t_ = t_len
    /\ layer_outputs' = Append(layer_outputs, hx_outputs)
    /\ direction' = direction + 1
    /\ gru_pc' = "direction"
    /\ UNCHANGED <<gru, gru_error, attrs, all_weights, drop_modules, x_, t_len, layer,
                   bound, t_, hx_, hx_outputs>>

\* list[::-1]
Reverse(list) == [i \in 1 .. Len(list) |-> list[Len(list) + 1 - i]]

\* "make output or next input": the element of the new x at each time is the
\* tuple of the hidden states concatenated there, and is read by the next
\* layer as its input at that time
GRUEndLayer ==
    /\ UNCHANGED notGRU
    /\ gru_pc = "direction"
    /\ direction = num_directions(gru)
    /\ x_' = IF Len(layer_outputs) = 2
            THEN LET f == layer_outputs[1]
                     b == Reverse(layer_outputs[2])
                 IN [batch |-> x_.batch, width |-> 2 * gru.hidden_size,
                     seq |-> [i \in 1 .. Min(Len(f), Len(b)) |-> <<f[i], b[i]>>]]
            ELSE [batch |-> x_.batch, width |-> gru.hidden_size,
                  seq |-> [i \in 1 .. Len(layer_outputs[1]) |->
                              <<layer_outputs[1][i]>>]]
    /\ layer' = layer + 1
    /\ direction' = 0
    /\ layer_outputs' = <<>>
    /\ gru_pc' = IF layer + 1 = gru.num_layers THEN "done" ELSE "direction"
    /\ UNCHANGED <<gru, gru_error, attrs, all_weights, drop_modules, t_len, bound, t_,
                   hx_, hx_outputs>>

GRUNext ==
    \/ GRUConstruct
    \/ \E batch \in 1 .. MaxBatch, time \in 1 .. MaxTime : GRUForward(batch, time)
    \/ GRUBeginDirection
    \/ GRUTimeStep
    \/ GRUEndDirection
    \/ GRUEndLayer

BNIdle ==
    /\ max_length = 0
    /\ num_features = 0
    /\ training = FALSE
    /\ running_mean = <<>>
    /\ running_var = <<>>
    /\ bn_call = None
    /\ bn_calls = 0

\* --------------------------------------------------------- specifications
SpecBNInit == BNInit /\ CBHGIdle /\ GRUIdle
SpecBN == SpecBNInit /\ [][BNNext]_vars

SpecCBHGInit == CBHGInit /\ BNIdle /\ GRUIdle
SpecCBHG == SpecCBHGInit /\ [][CBHGNext]_vars

SpecGRUInit == GRUInit /\ BNIdle /\ CBHGIdle
SpecGRU == SpecGRUInit /\ [][GRUNext]_vars

\* ------------------------------------------------------ claims on SpecBN
PairUnchanged(i) ==
    /\ running_mean'[i] = running_mean[i]
    /\ running_var'[i] = running_var[i]

\* C3: a forward call with timestep j leaves every pair i < max_length-1 with
\* i # j unchanged, and a call with time >= max_length selects the pair at
\* index max_length-1 and changes no other pair (clamping, no wraparound).
C3_TimestepIsolation ==
    [][bn_call'.op = "forward" =>
          /\ \A i \in 0 .. max_length - 2 :
                 bn_call'.time # i => PairUnchanged(i)
          /\ bn_call'.time >= max_length =>
                 /\ bn_call'.error = "none" => bn_call'.selected = max_length - 1
                 /\ \A i \in 0 .. max_length - 2 : PairUnchanged(i)]_vars

\* a training call beyond max_length has updated the last pair and left pair 0
\* as initialised
C3_Witness ==
    /\ max_length >= 2
    /\ bn_call.op = "forward"
    /\ bn_call.time > max_length
    /\ bn_call.error = "none"
    /\ bn_call.selected = max_length - 1
    /\ running_var[max_length - 1] # Scale
    /\ running_var[0] = Scale
    /\ running_mean[0] = 0

\* C4: a forward call whose feature-axis size differs from num_features raises
\* ValueError for every timestep and in both modes, before any buffer is
\* selected, and changes no running buffer.
C4_FeatureMismatchRaises ==
    [][(bn_call'.op = "forward" /\ bn_call'.feat # num_features) =>
          /\ bn_call'.error = "ValueError"
          /\ bn_call'.selected = NoIndex
          /\ running_mean' = running_mean
          /\ running_var' = running_var]_vars

\* the error was raised in evaluation mode for a timestep beyond max_length,
\* on a module whose buffers hold trained statistics
C4_Witness ==
    /\ bn_call.op = "forward"
    /\ bn_call.error = "ValueError"
    /\ bn_call.time >= max_length
    /\ ~bn_call.training
    /\ \E i \in DOMAIN running_var : running_var[i] # Scale

\* C10: an evaluation-mode forward call changes no pair; a training-mode
\* forward call changes at most the pair at the clamped timestep.
C10_OnlyTrainingMutates ==
    [][bn_call'.op = "forward" =>
          /\ ~training => (running_mean' = running_mean /\ running_var' = running_var)
          /\ training =>
                \A i \in 0 .. max_length - 1 :
                    i # (IF bn_call'.time >= max_length
                         THEN max_length - 1 ELSE bn_call'.time)
                        => PairUnchanged(i)]_vars

\* a successful evaluation-mode call on a pair that training had updated
C10_Witness ==
    /\ bn_call.op = "forward"
    /\ ~bn_call.training
    /\ bn_call.error = "none"
    /\ running_var[bn_call.selected] # Scale

\* ---------------------------------------------------- claims on SpecCBHG
\* C1 as stated: with max_pool_kernel_size = 2 the style_feature returned by
\* CBHG.forward has shape (B, hidden_size, T).
C1_StyleWidthIsHidden ==
    (cbhg.max_pool_kernel_size = 2 /\ pc = "done") =>
        style_feature = <<input_[1], cbhg.hidden_size, input_[3]>>

\* C1 amended: with max_pool_kernel_size = 2 the forward pass does not fail and
\* style_feature has shape (B, 2 * hidden_size, T); hidden_size 16, K = 4 and an
\* input of shape (2, 16, 20) give (2, 32, 20).
C1_StyleWidthIsTwiceHidden ==
    cbhg.max_pool_kernel_size = 2 =>
        /\ pc # "error"
        /\ pc \in {"proj2", "highway", "gru", "done"} =>
               style_feature = <<input_[1], 2 * cbhg.hidden_size, input_[3]>>
        /\ (pc = "done" /\ cbhg.hidden_size = 16 /\ cbhg.K = 4
                /\ input_ = <<2, 16, 20>>) => style_feature = <<2, 32, 20>>

\* the scenario of the claim has run to the end
C1_Witness ==
    /\ pc = "done"
    /\ cbhg.hidden_size = 16
    /\ cbhg.K = 4
    /\ cbhg.max_pool_kernel_size = 2
    /\ input_ = <<2, 16, 20>>
    /\ style_feature = <<2, 32, 20>>

\* C2: with max_pool_kernel_size = 2 every stage of CBHG.forward keeps the time
\* length T of the input (each bank convolution after _conv_fit_dim, the pooled
\* and trimmed concatenation, both projections), the pass does not fail, and
\* content_feature has shape (B, T, 2 * hidden_size).
C2_TimeLengthPreserved ==
    cbhg.max_pool_kernel_size = 2 =>
        /\ pc # "error"
        /\ \A i \in 1 .. Len(convbank_list) : convbank_list[i][3] = input_[3]
        /\ conv_cat # None => conv_cat[3] = input_[3]
        /\ style_feature # None => style_feature[3] = input_[3]
        /\ conv_proj # None => conv_proj[3] = input_[3]
        /\ pc = "done" =>
               content_feature = <<input_[1], input_[3], 2 * cbhg.hidden_size>>

\* a pass over even and odd kernels, with a multi-layer GRU, has finished
C2_Witness ==
    /\ pc = "done"
    /\ cbhg.max_pool_kernel_size = 2
    /\ cbhg.K >= 4
    /\ cbhg.num_gru_layers >= 2
    /\ input_[3] >= 2
    /\ Len(convbank_list) = cbhg.K
    /\ content_feature = <<input_[1], input_[3], 2 * cbhg.hidden_size>>

\* C9: for every max_pool_kernel_size, at the residual add the output of the
\* second projection and the input have the same shape.
C9_ResidualShapesEqual ==
    pc = "proj2" => Projection2(style_feature) = input_

\* ----------------------------------------------------- claims on SpecGRU
\* C5: the MinimalGRU constructor raises for every dropout outside [0, 1]
\* (ValueError) and for every nonlinearity other than 'relu' and 'tanh'
\* (NotImplementedError), raises nothing when both arguments are valid, raises
\* the dropout error when both are invalid, and has created no weight set when
\* it raises.
C5_ConstructorValidation ==
    gru_pc # "args" =>
        /\ (gru.dropout < 0 \/ gru.dropout > DropoutOne) => gru_error = "ValueError"
        /\ (gru.dropout >= 0 /\ gru.dropout <= DropoutOne
                /\ gru.nonlinearity \notin {"relu", "tanh"})
               => gru_error = "NotImplementedError"
        /\ (gru.dropout >= 0 /\ gru.dropout <= DropoutOne
                /\ gru.nonlinearity \in {"relu", "tanh"})
               => (gru_error = "none" /\ gru_pc # "raised"
                   /\ Len(all_weights) = gru.num_layers * num_directions(gru))
        /\ gru_error # "none" =>
               (gru_pc = "raised" /\ attrs = <<>> /\ all_weights = <<>>)

\* the constructor was given a dropout above 1 and an unknown nonlinearity
C5_Witness ==
    /\ gru_pc = "raised"
    /\ gru.dropout > DropoutOne
    /\ gru.nonlinearity = "sigmoid"
    /\ gru_error = "ValueError"
    /\ attrs = <<>>

\* C6: forward on an input (B, T, input_size) does not fail and returns a
\* tensor (B, T, hidden_size * num_directions); the weights each layer uses
\* were built for the width of the tensor fed to it: input_size at layer 0,
\* hidden_size * num_directions above.
C6_OutputShapeAndLayerWidths ==
    /\ gru_pc # "failed"
    /\ gru_pc = "time" =>
           /\ bound.w_ih.shape[2] = x_.width
           /\ x_.width = (IF layer = 0 THEN gru.input_size
                          ELSE IF gru.is_bidirection THEN 2 * gru.hidden_size
                          ELSE gru.hidden_size)
    /\ gru_pc = "done" =>
           /\ Len(x_.seq) = t_len
           /\ x_.width = (IF gru.is_bidirection THEN 2 * gru.hidden_size
                          ELSE gru.hidden_size)

\* a stacked bidirectional pass whose input width differs from the width
\* between the layers has finished
C6_Witness ==
    /\ gru_pc = "done"
    /\ gru.num_layers >= 2
    /\ gru.is_bidirection
    /\ gru.input_size # 2 * gru.hidden_size
    /\ t_len >= 2
    /\ Len(x_.seq) = t_len
    /\ x_.width = 2 * gru.hidden_size

\* timesteps lo, lo+1, ..., hi
Ascending(lo, hi) == [i \in 1 .. hi - lo + 1 |-> lo + i - 1]
\* timesteps hi, hi-1, ..., lo
Descending(hi, lo) == [i \in 1 .. hi - lo + 1 |-> hi - i + 1]

\* C7: in the first layer of a bidirectional MinimalGRU the backward direction
\* consumes the input at timesteps T-1, T-2, ..., 0 in that order, and the
\* layer output at position t concatenates the forward state after inputs 0..t
\* with the backward state after inputs T-1..t.
C7_BackwardReadsReversed ==
    /\ (gru_pc = "time" /\ layer = 0 /\ direction = 1) =>
           hx_ = Descending(t_len - 1, t_len - t_)
    /\ (gru_pc \in {"direction", "done"} /\ layer = 1 /\ direction = 0
            /\ gru.is_bidirection) =>
           \A i \in 0 .. t_len - 1 :
               x_.seq[i + 1] = <<Ascending(0, i), Descending(t_len - 1, i)>>

\* the tensor created as drop_mask for (l, d)
DropMaskOf(g, l, d) == layer_params(g, l, d)[5]

\* C8: whenever dropout > 0, the tensor registered under the drop_mask name and
\* handed to the dropout module in forward is the all-ones, non-trainable
\* tensor created for that (layer, direction), and weight_ih, weight_hh,
\* bias_ih, bias_hh are bound to the tensors created for those roles.
C8_DropMaskIsOnes ==
    (gru_pc = "time" /\ gru.dropout # 0) =>
        /\ bound.mask = DropMaskOf(gru, layer, direction)
        /\ attrs[format("drop_mask", layer, direction)]
               = DropMaskOf(gru, layer, direction)
        /\ \A n \in DOMAIN attrs :
               attrs[n].requires_grad => attrs[n].made_as # "drop_mask"
        /\ bound.w_ih.made_as = "w_ih"
        /\ bound.w_hh.made_as = "w_hh"
        /\ gru.bias => (bound.b_ih.made_as = "b_ih" /\ bound.b_hh.made_as = "b_hh")

====
